---------------------------- MODULE Spec2Model ----------------------------
(***************************************************************************)
(* A model of the JavaScript rewriter of rewriter/src/rewrite.rs: the      *)
(* visitor that collects edits (JsChange) into an ordered set, and the     *)
(* splice loop of rewrite() that materialises the output bytes and the     *)
(* source-map prelude.                                                     *)
(*                                                                         *)
(* Source text is a sequence of bytes, one string per byte.  The two bytes *)
(* of U+00A0 (NO-BREAK SPACE, which ECMAScript treats as white space) are  *)
(* written "C2" and "A0".  Spans are 0-based byte offsets, end exclusive,  *)
(* as in oxc's Span.                                                       *)
(***************************************************************************)
EXTENDS Integers, Sequences, FiniteSets, TLC

(***************************************************************************)
(* Byte strings                                                            *)
(***************************************************************************)
S_window == <<"w", "i", "n", "d", "o", "w">>
S_self == <<"s", "e", "l", "f">>
S_globalThis == <<"g", "l", "o", "b", "a", "l", "T", "h", "i", "s">>
S_this == <<"t", "h", "i", "s">>
S_parent == <<"p", "a", "r", "e", "n", "t">>
S_top == <<"t", "o", "p">>
S_location == <<"l", "o", "c", "a", "t", "i", "o", "n">>
S_document == <<"d", "o", "c", "u", "m", "e", "n", "t">>
S_eval == <<"e", "v", "a", "l">>
S_frames == <<"f", "r", "a", "m", "e", "s">>
S_postMessage == <<"p", "o", "s", "t", "M", "e", "s", "s", "a", "g", "e">>
S_import == <<"i", "m", "p", "o", "r", "t">>
S_new == <<"n", "e", "w">>
S_meta == <<"m", "e", "t", "a">>
S_target == <<"t", "a", "r", "g", "e", "t">>
S_typeof == <<"t", "y", "p", "e", "o", "f">>
S_debugger == <<"d", "e", "b", "u", "g", "g", "e", "r">>
S_return == <<"r", "e", "t", "u", "r", "n">>
S_foo == <<"f", "o", "o">>
S_scramitize == <<" ", "$", "s", "c", "r", "a", "m", "i", "t", "i", "z", "e", "(">>
S_scramtag == <<"/", "*", "s", "c", "r", "a", "m", "t", "a", "g", " ">>
S_tryset == <<"(", "(", "t", ")", "=", ">", "$", "s", "c", "r", "a", "m", "j", "e", "t", "$", "t", "r", "y", "s", "e", "t", "(">>
S_specifier == <<".", "/", "a", ".", "j", "s">>
S_resolved == <<"h", "t", "t", "p", "s", ":", "/", "/", "h", "/", "a", ".", "j", "s">>
cfg_prefix == <<"/", "x", "/">>
cfg_base == <<"h", "t", "t", "p", "s", ":", "/", "/", "h", "/">>
cfg_wrapfn == <<"W", "R", "A", "P", "F", "N">>
cfg_wrapthisfn == <<"W", "R", "A", "P", "T", "H", "I", "S", "F", "N">>
cfg_importfn == <<"I", "M", "P", "O", "R", "T", "F", "N">>
cfg_rewritefn == <<"R", "E", "W", "R", "I", "T", "E", "F", "N">>
cfg_setrealmfn == <<"S", "E", "T", "R", "E", "A", "L", "M", "F", "N">>
cfg_metafn == <<"M", "E", "T", "A", "F", "N">>
cfg_pushsourcemapfn == <<"P", "U", "S", "H", "S", "O", "U", "R", "C", "E", "M", "A", "P", "F", "N">>
cfg_sourcetag == <<"t", "a", "g">>
K_function == <<"f", "u", "n", "c", "t", "i", "o", "n", " ", "g", "(", ")">>
K_const == <<"c", "o", "n", "s", "t", " ", "x", "=">>
K_export == <<"e", "x", "p", "o", "r", "t", " ">>
K_exportall == <<"e", "x", "p", "o", "r", "t", " ", "*", " ", "f", "r", "o", "m", " ">>
K_exportfrom == <<"}", " ", "f", "r", "o", "m", " ">>
K_importdecl == <<"i", "m", "p", "o", "r", "t", " ">>
K_forin == <<"f", "o", "r", "(", "k", " ", "i", "n", " ">>
S_scramerr == <<"$", "s", "c", "r", "a", "m", "e", "r", "r", "(">>
K_try == <<"t", "r", "y">>
K_catch == <<"c", "a", "t", "c", "h">>
S_e == <<"e">>
S_x == <<"x">>
S_a == <<"a">>
S_one == <<"1">>
S_space == <<" ">>
S_nbsp == <<"C2", "A0">>
S_none == <<>>
S_assign == <<"=">>
S_addassign == <<"+", "=">>
S_not == <<"!">>

\* rewrite.rs:433  const UNSAFE_GLOBALS
UNSAFE_GLOBALS ==
    {S_window, S_self, S_globalThis, S_this, S_parent, S_top, S_location,
     S_document, S_eval, S_frames}

(***************************************************************************)
(* Rust string operations used by the splice loop                          *)
(***************************************************************************)
DigitChar(d) == <<"0", "1", "2", "3", "4", "5", "6", "7", "8", "9">>[d + 1]

\* Display of an unsigned integer, as format!("{}", n) prints it.
RECURSIVE to_string(_)
to_string(n) ==
    IF n < 10 THEN <<DigitChar(n)>>
    ELSE to_string(n \div 10) \o <<DigitChar(n % 10)>>

\* A UTF-8 continuation byte (0x80..0xBF); the model's only one is 0xA0.
IsContinuationByte(b) == b = "A0"

\* str::is_char_boundary
is_char_boundary(s, i) ==
    \/ i = 0
    \/ i = Len(s)
    \/ i < Len(s) /\ ~IsContinuationByte(s[i + 1])

\* Whether s[a..b] exists: the condition under which str::get(a..b) is Some
\* and under which the indexing expression &s[a..b] does not panic.
SliceOk(s, a, b) ==
    /\ a <= b
    /\ b <= Len(s)
    /\ is_char_boundary(s, a)
    /\ is_char_boundary(s, b)

\* The bytes of s[a..b], for a slice that exists.
Slice(s, a, b) == SubSeq(s, a + 1, b)

\* rewrite.rs:576  fn json_escape_string
RECURSIVE json_escape_string(_)
json_escape_string(s) ==
    IF s = <<>> THEN <<>>
    ELSE LET c == Head(s) IN
         (CASE c = "\"" -> <<"\\", "\"">>
            [] c = "\\" -> <<"\\", "\\">>
            [] c = "\n" -> <<"\\", "n">>
            [] c = "\r" -> <<"\\", "r">>
            [] c = "\t" -> <<"\\", "t">>
            [] c = "08" -> <<"\\", "b">>
            [] c = "0C" -> <<"\\", "f">>
            [] OTHER -> <<c>>)
         \o json_escape_string(Tail(s))

(***************************************************************************)
(* The parser's output.  A syntax tree is first written as nested parts    *)
(* (literal bytes and sub-nodes, in source order); Text gives the source   *)
(* it was parsed from and Locate the tree with the spans the parser        *)
(* assigns: each node spans exactly the text of its parts.                 *)
(*                                                                         *)
(* In a located node, kids holds the child nodes in source order:          *)
(*   StaticMemberExpression    <<object, property>>                        *)
(*   ComputedMemberExpression  <<object, expression>>                      *)
(*   CallExpression            <<callee>> \o arguments   (flag: optional)  *)
(*   NewExpression             <<callee>> \o arguments                     *)
(*   AssignmentExpression      <<left, right>>           (name: operator)  *)
(*   UnaryExpression           <<argument>>              (name: operator)  *)
(*   ObjectProperty            <<value>> or <<key, value>> (flag: shorthand)*)
(*   ExportNamedDeclaration    ... source last           (flag: has source)*)
(*   ForInStatement            <<right, body>>                             *)
(*   TryStatement              <<block, handler>>                          *)
(*   CatchClause               <<body>> or <<param, body>> (flag: has param)*)
(***************************************************************************)
Lit(s) == [t |-> "lit", s |-> s]
Sub(n) == [t |-> "node", n |-> n]
Mk(kind, name, flag, parts) ==
    [kind |-> kind, name |-> name, flag |-> flag, parts |-> parts]

RECURSIVE Text(_), PartsText(_)
Text(node) == PartsText(node.parts)
PartsText(parts) ==
    IF parts = <<>> THEN <<>>
    ELSE (IF Head(parts).t = "lit" THEN Head(parts).s ELSE Text(Head(parts).n))
         \o PartsText(Tail(parts))

RECURSIVE Locate(_, _), LocateParts(_, _)
Locate(node, at) ==
    [kind |-> node.kind, name |-> node.name, flag |-> node.flag,
     span |-> [start |-> at, end |-> at + Len(Text(node))],
     kids |-> LocateParts(node.parts, at)]
LocateParts(parts, at) ==
    IF parts = <<>> THEN <<>>
    ELSE LET p == Head(parts) IN
         IF p.t = "lit" THEN LocateParts(Tail(parts), at + Len(p.s))
         ELSE <<Locate(p.n, at)>> \o LocateParts(Tail(parts), at + Len(Text(p.n)))

RECURSIVE Commas(_)
Commas(nodes) ==
    IF nodes = <<>> THEN <<>>
    ELSE IF Len(nodes) = 1 THEN <<Sub(nodes[1])>>
    ELSE <<Sub(Head(nodes)), Lit(<<",">>)>> \o Commas(Tail(nodes))

RECURSIVE Semis(_)
Semis(nodes) ==
    IF nodes = <<>> THEN <<>>
    ELSE IF Len(nodes) = 1 THEN <<Sub(nodes[1])>>
    ELSE <<Sub(Head(nodes)), Lit(<<";">>)>> \o Semis(Tail(nodes))

\* Expressions
Ident(n) == Mk("Identifier", n, FALSE, <<Lit(n)>>)
This == Mk("ThisExpression", S_this, FALSE, <<Lit(S_this)>>)
Num1 == Mk("NumericLiteral", S_one, FALSE, <<Lit(S_one)>>)
Str(v) == Mk("StringLiteral", v, FALSE, <<Lit(<<"\"">> \o v \o <<"\"">>)>>)
IdName(n) == Mk("IdentifierName", n, FALSE, <<Lit(n)>>)
StaticMember(o, p) ==
    Mk("StaticMemberExpression", p, FALSE, <<Sub(o), Lit(<<".">>), Sub(IdName(p))>>)
ComputedMember(o, e) ==
    Mk("ComputedMemberExpression", S_none, FALSE,
       <<Sub(o), Lit(<<"[">>), Sub(e), Lit(<<"]">>)>>)
\* gap: the white space between the callee and the parenthesis
Call(c, gap, optional, args) ==
    Mk("CallExpression", S_none, optional,
       <<Sub(c), Lit(gap), Lit(IF optional THEN <<"?", ".">> ELSE <<>>), Lit(<<"(">>)>>
       \o Commas(args) \o <<Lit(<<")">>)>>)
New(c, args) ==
    Mk("NewExpression", S_none, FALSE,
       <<Lit(S_new \o S_space), Sub(c), Lit(<<"(">>)>> \o Commas(args) \o <<Lit(<<")">>)>>)
Paren(e) ==
    Mk("ParenthesizedExpression", S_none, FALSE, <<Lit(<<"(">>), Sub(e), Lit(<<")">>)>>)
Typeof(e) == Mk("UnaryExpression", S_typeof, FALSE, <<Lit(S_typeof \o S_space), Sub(e)>>)
Not(e) == Mk("UnaryExpression", S_not, FALSE, <<Lit(S_not), Sub(e)>>)
Update(e) == Mk("UpdateExpression", S_none, FALSE, <<Sub(e), Lit(<<"+", "+">>)>>)
TargetIdent(n) == Mk("AssignmentTargetIdentifier", n, FALSE, <<Lit(n)>>)
ArrayTarget(n) ==
    Mk("ArrayAssignmentTarget", S_none, FALSE,
       <<Lit(<<"[">>), Sub(TargetIdent(n)), Lit(<<"]">>)>>)
Assign(left, op, right) ==
    Mk("AssignmentExpression", op, FALSE, <<Sub(left), Lit(op), Sub(right)>>)
Shorthand(n) == Mk("ObjectProperty", n, TRUE, <<Sub(Ident(n))>>)
Property(k, v) ==
    Mk("ObjectProperty", k, FALSE, <<Sub(IdName(k)), Lit(<<":">>), Sub(v)>>)
Object(props) ==
    Mk("ObjectExpression", S_none, FALSE,
       <<Lit(<<"{">>)>> \o Commas(props) \o <<Lit(<<"}">>)>>)
ImportExpr(src) ==
    Mk("ImportExpression", S_none, FALSE,
       <<Lit(S_import \o <<"(">>), Sub(src), Lit(<<")">>)>>)
ImportMeta == Mk("MetaProperty", S_import, FALSE, <<Lit(S_import \o <<".">> \o S_meta)>>)
NewTarget == Mk("MetaProperty", S_new, FALSE, <<Lit(S_new \o <<".">> \o S_target)>>)

\* Statements
ExprStmt(e) == Mk("ExpressionStatement", S_none, FALSE, <<Sub(e)>>)
Debugger == Mk("DebuggerStatement", S_none, FALSE, <<Lit(S_debugger)>>)
Return(e) == Mk("ReturnStatement", S_none, FALSE, <<Lit(S_return \o S_space), Sub(e)>>)
\* The body of an arrow function with an expression body spans the expression.
ExprBody(e) == Mk("FunctionBody", S_none, FALSE, <<Sub(ExprStmt(e))>>)
BlockBody(stmts) ==
    Mk("FunctionBody", S_none, FALSE, <<Lit(<<"{">>)>> \o Semis(stmts) \o <<Lit(<<"}">>)>>)
Arrow(e) ==
    Mk("ArrowFunctionExpression", S_none, FALSE,
       <<Lit(<<"(", ")", "=", ">">>), Sub(ExprBody(e))>>)
Function(stmts) == Mk("Function", S_none, FALSE, <<Lit(K_function), Sub(BlockBody(stmts))>>)
ForIn(right, body) ==
    Mk("ForInStatement", S_none, FALSE,
       <<Lit(K_forin), Sub(right), Lit(<<")">>), Sub(body)>>)
Const(init) == Mk("VariableDeclaration", S_none, FALSE, <<Lit(K_const), Sub(init)>>)
ImportDecl(v) == Mk("ImportDeclaration", S_none, FALSE, <<Lit(K_importdecl), Sub(Str(v))>>)
ExportAll(v) == Mk("ExportAllDeclaration", S_none, FALSE, <<Lit(K_exportall), Sub(Str(v))>>)
ExportFrom(n, v) ==
    Mk("ExportNamedDeclaration", S_none, TRUE,
       <<Lit(K_export \o <<"{">>), Sub(Ident(n)), Lit(K_exportfrom), Sub(Str(v))>>)
ExportList(n) ==
    Mk("ExportNamedDeclaration", S_none, FALSE,
       <<Lit(K_export \o <<"{">>), Sub(Ident(n)), Lit(<<"}">>)>>)
ExportDecl(decl) == Mk("ExportNamedDeclaration", S_none, FALSE, <<Lit(K_export), Sub(decl)>>)
Block(stmts) ==
    Mk("BlockStatement", S_none, FALSE, <<Lit(<<"{">>)>> \o Semis(stmts) \o <<Lit(<<"}">>)>>)
CatchParameter(n) == Mk("CatchParameter", n, FALSE, <<Lit(n)>>)
Catch(n, stmts) ==
    Mk("CatchClause", S_none, TRUE,
       <<Lit(K_catch \o <<"(">>), Sub(CatchParameter(n)), Lit(<<")">>), Sub(Block(stmts))>>)
CatchNoParam(stmts) == Mk("CatchClause", S_none, FALSE, <<Lit(K_catch), Sub(Block(stmts))>>)
Try(handler) == Mk("TryStatement", S_none, FALSE, <<Lit(K_try), Sub(Block(<<>>)), Sub(handler)>>)
Program(stmts) == Mk("Program", S_none, FALSE, Semis(stmts))

(***************************************************************************)
(* The inputs: every program of a small grammar.  A chain is a head        *)
(* (an identifier or this) followed by at most MaxChain postfix            *)
(* operations (member access, call); the wrapped programs put a head or a  *)
(* one-step chain into each syntactic context the visitor treats           *)
(* specially.                                                              *)
(***************************************************************************)
MaxChain == 2

Heads == {Ident(S_window), Ident(S_eval), Ident(S_x), This}

LocationAssign == Assign(TargetIdent(S_location), S_assign, Num1)

ArgLists == {<<>>, <<Ident(S_x)>>, <<Ident(S_window)>>, <<LocationAssign>>}

\* White space between `eval` and its parenthesis: none, a space, U+00A0.
Gaps == {S_none, S_space, S_nbsp}

Postfix(e) ==
    {StaticMember(e, p) : p \in {S_foo, S_x, S_postMessage, S_top}}
    \cup {ComputedMember(e, Ident(S_x))}
    \cup {Call(e, g, FALSE, a) :
            g \in (IF e = Ident(S_eval) THEN Gaps ELSE {S_none}), a \in ArgLists}
    \cup {Call(e, S_none, TRUE, <<Ident(S_x)>>)}

RECURSIVE Chains(_)
Chains(n) ==
    IF n = 0 THEN Heads
    ELSE LET C == Chains(n - 1) IN C \cup UNION {Postfix(e) : e \in C}

Cores == Heads \cup UNION {Postfix(e) : e \in Heads}

Wrapped(e) ==
    {Typeof(e), Not(e), Paren(e), Arrow(e), Arrow(Typeof(e)),
     StaticMember(Paren(Typeof(e)), S_foo),
     Call(Ident(S_x), S_none, FALSE, <<e>>),
     Call(Ident(S_x), S_none, FALSE, <<Typeof(e)>>),
     New(Ident(S_x), <<e>>),
     ImportExpr(e),
     Assign(TargetIdent(S_x), S_assign, e),
     Assign(TargetIdent(S_window), S_assign, e),
     Assign(TargetIdent(S_location), S_addassign, e),
     Assign(ArrayTarget(S_location), S_assign, e),
     Paren(Object(<<Property(S_a, e)>>)),
     Paren(Object(<<Property(S_a, e), Shorthand(S_window)>>))}

Statements(e) ==
    {<<ExprStmt(w)>> : w \in Wrapped(e)}
    \cup {<<Return(e)>>, <<Function(<<Return(e)>>)>>, <<ForIn(e, ExprStmt(e))>>,
          <<Const(e)>>, <<ExportDecl(Const(e))>>,
          <<ExportDecl(Function(<<Return(e)>>))>>,
          <<Debugger, ExprStmt(e)>>, <<ExprStmt(e), Debugger>>,
          <<Try(Catch(S_e, <<ExprStmt(e)>>))>>, <<Try(CatchNoParam(<<ExprStmt(e)>>))>>}

Fixed ==
    {<<Debugger>>, <<Try(Catch(S_e, <<>>))>>,
     <<ImportDecl(S_specifier)>>, <<ExportAll(S_specifier)>>,
     <<ExportFrom(S_a, S_specifier)>>, <<ExportList(S_a)>>, <<ExportList(S_window)>>,
     <<ExprStmt(ImportMeta)>>, <<ExprStmt(StaticMember(ImportMeta, S_top))>>,
     <<Function(<<ExprStmt(NewTarget)>>)>>,
     <<ExprStmt(ImportExpr(Str(S_specifier)))>>,
     <<ExprStmt(Paren(Object(<<Shorthand(S_x)>>)))>>,
     <<ExprStmt(Paren(Object(<<Shorthand(S_window)>>)))>>,
     <<ExprStmt(Paren(Object(<<Shorthand(S_window), Shorthand(S_top)>>)))>>,
     <<ExprStmt(New(Ident(S_window), <<>>))>>,
     <<ExprStmt(New(StaticMember(Ident(S_window), S_foo), <<Ident(S_window)>>))>>,
     <<ExprStmt(New(ComputedMember(Ident(S_window), Ident(S_window)), <<>>))>>,
     <<ExprStmt(New(Paren(Ident(S_window)), <<>>))>>,
     <<ExprStmt(Update(Ident(S_window)))>>,
     <<ExprStmt(Arrow(LocationAssign))>>,
     <<Function(<<ExprStmt(LocationAssign), Return(Ident(S_window))>>)>>,
     <<ExprStmt(Assign(StaticMember(Ident(S_window), S_top), S_assign, Ident(S_window)))>>,
     <<ExprStmt(Assign(StaticMember(Ident(S_x), S_foo), S_assign, Ident(S_x)))>>}

Programs ==
    {Program(<<ExprStmt(e)>>) : e \in Chains(MaxChain)}
    \cup {Program(s) : s \in UNION {Statements(e) : e \in Cores}}
    \cup {Program(s) : s \in Fixed}

S_evalopen == <<"e", "v", "a", "l", "(">>
S_realmcall == <<"(", "{", "}", ")", ".">>

(***************************************************************************)
(* State                                                                   *)
(***************************************************************************)
VARIABLES
    js,         \* the source text handed to rewrite()
    program,    \* the parsed program (ret.program)
    config,     \* the flags of Config
    pc,         \* "visit", "splice" or "done"
    emitted,    \* every JsChange handed to jschanges.insert, in call order
    jschanges,  \* the ordered edit set, as its iteration order
    next,       \* position of the splice loop's iterator in jschanges
    offset,     \* the splice cursor into js
    buffer,     \* the output buffer
    sourcemap,  \* the source-map prelude
    result,     \* "none" while running, then "Ok", "Oob" or "panic"
    output      \* the bytes returned with Ok

vars ==
    <<js, program, config, pc, emitted, jschanges, next, offset, buffer,
      sourcemap, result, output>>

(***************************************************************************)
(* JsChange and the ordered edit set                                       *)
(***************************************************************************)
Span(start, end) == [start |-> start, end |-> end]

GenericChange(span, text) == [type |-> "GenericChange", span |-> span, text |-> text]
SourceTag(tagstart) == [type |-> "SourceTag", tagstart |-> tagstart]
Assignment(name, entirespan, rhsspan, op) ==
    [type |-> "Assignment", name |-> name, entirespan |-> entirespan,
     rhsspan |-> rhsspan, op |-> op]

\* The key inner_cmp compares: the edit's primary offset.
PrimaryOffset(c) ==
    CASE c.type = "GenericChange" -> c.span.start
      [] c.type = "Assignment" -> c.entirespan.start
      [] c.type = "SourceTag" -> c.tagstart

inner_cmp(a, b) ==
    IF PrimaryOffset(a) < PrimaryOffset(b) THEN "Less"
    ELSE IF PrimaryOffset(a) = PrimaryOffset(b) THEN "Equal"
    ELSE "Greater"

\* BTreeSet::insert under Ord = inner_cmp: a value that compares Equal to a
\* member is not inserted and the member is kept.
insert(set, c) ==
    IF \E i \in 1..Len(set) : inner_cmp(set[i], c) = "Equal" THEN set
    ELSE LET below == Cardinality({i \in 1..Len(set) : inner_cmp(set[i], c) = "Less"})
         IN SubSeq(set, 1, below) \o <<c>> \o SubSeq(set, below + 1, Len(set))

RECURSIVE InsertAll(_, _)
InsertAll(set, changes) ==
    IF changes = <<>> THEN set
    ELSE InsertAll(insert(set, Head(changes)), Tail(changes))

(***************************************************************************)
(* The visitor.  Each operator returns the edits its method hands to       *)
(* jschanges.insert, in call order.                                        *)
(***************************************************************************)
\* config.encode: the percent-encoding of ':' and '/'.
RECURSIVE encode(_)
encode(url) ==
    IF url = <<>> THEN <<>>
    ELSE (CASE Head(url) = ":" -> <<"%", "3", "A">>
            [] Head(url) = "/" -> <<"%", "2", "F">>
            [] OTHER -> <<Head(url)>>)
         \o encode(Tail(url))

\* self.base.join(url), for the specifiers of the model's programs.
join(url) == IF url = S_specifier THEN S_resolved ELSE url

rewrite_url(url) == <<"\"">> \o cfg_prefix \o encode(join(url)) \o <<"\"">>

Wrapped_ident(name) == cfg_wrapfn \o <<"(">> \o name \o <<")">>

rewrite_ident(name, span) ==
    IF name \in UNSAFE_GLOBALS
    THEN <<GenericChange(span, <<"(">> \o Wrapped_ident(name) \o <<")">>)>>
    ELSE <<>>

RECURSIVE walk_member_expression(_)
walk_member_expression(it) ==
    CASE it.kind = "Identifier" -> rewrite_ident(it.name, it.span)
      [] it.kind \in {"StaticMemberExpression", "ComputedMemberExpression"} ->
            walk_member_expression(it.kids[1])
      [] OTHER -> <<>>

Scramitize(span) ==
    <<GenericChange(Span(span.start, span.start), S_scramitize),
      GenericChange(Span(span.end, span.end), <<")">>)>>

RECURSIVE Visit(_), VisitAll(_)

VisitAll(nodes) ==
    IF nodes = <<>> THEN <<>> ELSE Visit(Head(nodes)) \o VisitAll(Tail(nodes))

visit_identifier_reference(it) ==
    IF it.name \in UNSAFE_GLOBALS
    THEN <<GenericChange(it.span, Wrapped_ident(it.name))>>
    ELSE <<>>

visit_new_expression(it) ==
    walk_member_expression(it.kids[1]) \o VisitAll(Tail(it.kids))

\* A faulty CullTree: the tree is never culled.
CullTree_never(object, property) == FALSE

\* The "cull tree" early returns of visit_member_expression.
CullTree(object, property) ==
    /\ ~config.strict_rewrites
    /\ property.name \notin UNSAFE_GLOBALS
    /\ object.kind \in {"Identifier", "ThisExpression"}

visit_member_expression(it) ==
    IF it.kind = "StaticMemberExpression"
    THEN LET object == it.kids[1]
             property == it.kids[2]
         IN IF property.name = S_postMessage
            THEN <<GenericChange(property.span,
                                 cfg_setrealmfn \o S_realmcall \o property.name)>>
                 \o Visit(object)
            ELSE IF CullTree(object, property)
            THEN <<>>
            ELSE (IF /\ config.scramitize
                     /\ object.kind \notin {"MetaProperty", "Super"}
                  THEN Scramitize(object.span)
                  ELSE <<>>)
                 \o VisitAll(it.kids)
    ELSE VisitAll(it.kids)

visit_this_expression(it) ==
    <<GenericChange(it.span, cfg_wrapthisfn \o <<"(">> \o S_this \o <<")">>)>>

visit_debugger_statement(it) == <<GenericChange(it.span, <<>>)>>

visit_call_expression(it) ==
    LET callee == it.kids[1] IN
    IF callee.kind = "Identifier" /\ callee.name = S_eval /\ ~it.flag
    THEN <<GenericChange(Span(callee.span.start, callee.span.end + 1),
                         S_evalopen \o cfg_rewritefn \o <<"(">>),
           GenericChange(Span(it.span.end, it.span.end), <<")">>)>>
         \o VisitAll(Tail(it.kids))
    ELSE (IF config.scramitize THEN Scramitize(it.span) ELSE <<>>)
         \o VisitAll(it.kids)

visit_import_declaration(it) ==
    LET source == it.kids[Len(it.kids)] IN
    <<GenericChange(source.span, rewrite_url(source.name))>> \o VisitAll(it.kids)

visit_import_expression(it) ==
    <<GenericChange(Span(it.span.start, it.span.start + 6),
                    <<"(">> \o cfg_importfn \o <<"(", "\"">> \o cfg_base
                    \o <<"\"", ")", ")">>)>>
    \o VisitAll(it.kids)

visit_export_all_declaration(it) ==
    LET source == it.kids[Len(it.kids)] IN
    <<GenericChange(source.span, rewrite_url(source.name))>>

\* A faulty visit_export_named_declaration: it walks on into the declaration.
visit_export_named_declaration_walks(it) ==
    (IF it.flag
     THEN LET source == it.kids[Len(it.kids)] IN
          <<GenericChange(source.span, rewrite_url(source.name))>>
     ELSE <<>>)
    \o VisitAll(it.kids)

visit_export_named_declaration(it) ==
    IF it.flag
    THEN LET source == it.kids[Len(it.kids)] IN
         <<GenericChange(source.span, rewrite_url(source.name))>>
    ELSE <<>>

\* Compiled in with the crate's "debug" feature; without the feature the
\* default walk runs, which is this method with capture_errors off.
visit_try_statement(it) ==
    LET h == it.kids[2]
        body == h.kids[Len(h.kids)]
    IN (IF config.capture_errors /\ h.flag
        THEN <<GenericChange(Span(body.span.start + 1, body.span.start + 1),
                             S_scramerr \o h.kids[1].name \o <<")", ";">>)>>
        ELSE <<>>)
       \o VisitAll(it.kids)

visit_object_expression(it) ==
    LET value(p) == p.kids[Len(p.kids)]
        hits == {i \in 1..Len(it.kids) :
                    /\ value(it.kids[i]).kind = "Identifier"
                    /\ value(it.kids[i]).name \in UNSAFE_GLOBALS
                    /\ it.kids[i].flag}
    IN IF hits # {}
       THEN LET s == value(it.kids[CHOOSE i \in hits : \A j \in hits : i <= j])
            IN <<GenericChange(s.span,
                               s.name \o <<":", " ", "(">> \o Wrapped_ident(s.name)
                               \o <<")">>)>>
       ELSE VisitAll(it.kids)

visit_function_body(it) ==
    (IF config.do_sourcemaps THEN <<SourceTag(it.span.start)>> ELSE <<>>)
    \o VisitAll(it.kids)

visit_return_statement(it) == VisitAll(it.kids)

\* A faulty visit_unary_expression: no typeof guard.
visit_unary_expression_unguarded(it) == VisitAll(it.kids)

visit_unary_expression(it) ==
    IF it.name = S_typeof THEN <<>> ELSE VisitAll(it.kids)

visit_for_in_statement(it) == Visit(it.kids[Len(it.kids)])

visit_update_expression(it) == <<>>

\* A faulty visit_meta_property: the meta name is not looked at.
visit_meta_property_any(it) ==
    <<GenericChange(it.span,
                    cfg_metafn \o <<"(", "\"">> \o cfg_base \o <<"\"", ")">>)>>

visit_meta_property(it) ==
    IF it.name = S_import
    THEN <<GenericChange(it.span,
                         cfg_metafn \o <<"(", "\"">> \o cfg_base \o <<"\"", ")">>)>>
    ELSE <<>>

visit_assignment_expression(it) ==
    LET left == it.kids[1]
        right == it.kids[2]
    IN CASE left.kind = "AssignmentTargetIdentifier" ->
              IF left.name \in {S_location}
              THEN <<Assignment(left.name, it.span, right.span, it.name)>>
              ELSE Visit(right)
         [] left.kind = "ArrayAssignmentTarget" -> <<>>
         [] OTHER -> Visit(left) \o Visit(right)

\* The dispatch of oxc's Visit trait: the overridden method for the node's
\* kind, and for every other kind the default walk over its children.
Visit(it) ==
    CASE it.kind \in {"Identifier", "AssignmentTargetIdentifier"} ->
              visit_identifier_reference(it)
      [] it.kind = "NewExpression" -> visit_new_expression(it)
      [] it.kind \in {"StaticMemberExpression", "ComputedMemberExpression"} ->
              visit_member_expression(it)
      [] it.kind = "ThisExpression" -> visit_this_expression(it)
      [] it.kind = "DebuggerStatement" -> visit_debugger_statement(it)
      [] it.kind = "CallExpression" -> visit_call_expression(it)
      [] it.kind = "ImportDeclaration" -> visit_import_declaration(it)
      [] it.kind = "ImportExpression" -> visit_import_expression(it)
      [] it.kind = "ExportAllDeclaration" -> visit_export_all_declaration(it)
      [] it.kind = "ExportNamedDeclaration" -> visit_export_named_declaration(it)
      [] it.kind = "TryStatement" -> visit_try_statement(it)
      [] it.kind = "ObjectExpression" -> visit_object_expression(it)
      [] it.kind = "FunctionBody" -> visit_function_body(it)
      [] it.kind = "ReturnStatement" -> visit_return_statement(it)
      [] it.kind = "UnaryExpression" -> visit_unary_expression(it)
      [] it.kind = "ForInStatement" -> visit_for_in_statement(it)
      [] it.kind = "UpdateExpression" -> visit_update_expression(it)
      [] it.kind = "MetaProperty" -> visit_meta_property(it)
      [] it.kind = "AssignmentExpression" -> visit_assignment_expression(it)
      [] OTHER -> VisitAll(it.kids)

(***************************************************************************)
(* rewrite()                                                               *)
(***************************************************************************)
\* The flags of Config; the shim names, prefix, base URL and source tag are
\* fixed to the cfg_ byte strings above.
Configs ==
    [capture_errors : BOOLEAN, scramitize : BOOLEAN, do_sourcemaps : BOOLEAN,
     strict_rewrites : BOOLEAN]

\* The call of rewrite(js, url, sourcetag, config) and the parse.
Init ==
    /\ \E p \in Programs : js = Text(p) /\ program = Locate(p, 0)
    /\ config \in Configs
    /\ pc = "visit"
    /\ emitted = <<>>
    /\ jschanges = <<>>
    /\ next = 1
    /\ offset = 0
    /\ buffer = <<>>
    /\ sourcemap = <<>>
    /\ result = "none"
    /\ output = <<>>

\* The size of a change's replacement minus what it replaces, as the first
\* loop of rewrite() adds it up.
Difference(change) ==
    CASE change.type = "GenericChange" ->
              Len(change.text) - (change.span.end - change.span.start)
      [] change.type = "Assignment" ->
              (change.entirespan.end - change.entirespan.start) + Len(change.name) + 10
      [] OTHER -> 0

RECURSIVE TotalDifference(_)
TotalDifference(changes) ==
    IF changes = <<>> THEN 0
    ELSE Difference(Head(changes)) + TotalDifference(Tail(changes))

\* ast_pass.visit_program(&program), the size estimate and the buffers'
\* set-up.  A negative estimate cast to usize overflows Vec's capacity.
VisitProgram ==
    /\ pc = "visit"
    /\ emitted' = Visit(program)
    /\ jschanges' = InsertAll(<<>>, emitted')
    /\ IF Len(js) + TotalDifference(jschanges') < 0
       THEN /\ pc' = "done"
            /\ result' = "panic"
            /\ sourcemap' = sourcemap
       ELSE /\ pc' = "splice"
            /\ result' = result
            /\ sourcemap' = IF config.do_sourcemaps
                            THEN cfg_pushsourcemapfn \o <<"(", "[">>
                            ELSE <<>>
    /\ UNCHANGED <<js, program, config, next, offset, buffer, output>>

\* A faulty CursorAfter: the cursor stays at the start of a GenericChange, so
\* the bytes it replaces are copied as well.
CursorAfter_keepsReplaced(change) ==
    CASE change.type = "GenericChange" -> change.span.start
      [] change.type = "Assignment" -> change.entirespan.end
      [] change.type = "SourceTag" -> change.tagstart

\* The cursor after a change has been spliced: past the text a GenericChange
\* or an Assignment replaces, at the point a SourceTag is inserted.
CursorAfter(change) ==
    CASE change.type = "GenericChange" -> change.span.end
      [] change.type = "Assignment" -> change.entirespan.end
      [] change.type = "SourceTag" -> change.tagstart

\* One element of the source-map array.
SourcemapEntry(spliced, start, end) ==
    <<"[", "\"">> \o json_escape_string(spliced) \o <<"\"", ",">>
    \o to_string(start) \o <<",">> \o to_string(end) \o <<"]", ",">>

\* The loop body for JsChange::GenericChange.
SpliceGenericChange ==
    /\ pc = "splice"
    /\ next <= Len(jschanges)
    /\ jschanges[next].type = "GenericChange"
    /\ LET change == jschanges[next]
           start == change.span.start
           end == change.span.end
       IN IF config.do_sourcemaps /\ ~SliceOk(js, start, end)
          THEN /\ pc' = "done"
               /\ result' = "panic"
               /\ UNCHANGED <<next, offset, buffer, sourcemap>>
          ELSE /\ sourcemap' =
                    IF config.do_sourcemaps
                    THEN sourcemap \o SourcemapEntry(Slice(js, start, end), start,
                                                     start + Len(change.text))
                    ELSE sourcemap
               /\ IF ~SliceOk(js, offset, start)
                  THEN /\ pc' = "done"
                       /\ result' = "Oob"
                       /\ UNCHANGED <<next, offset, buffer>>
                  ELSE /\ buffer' = buffer \o Slice(js, offset, start) \o change.text
                       /\ offset' = CursorAfter(change)
                       /\ next' = next + 1
                       /\ UNCHANGED <<pc, result>>
    /\ UNCHANGED <<js, program, config, emitted, jschanges, output>>

\* The text an Assignment change expands to.
AssignmentText(change) ==
    S_tryset \o change.name \o <<",", "\"">> \o change.op \o <<"\"", ",", "t", ")",
    "|", "|", "(">> \o change.name \o change.op \o <<"t", ")", ")", "(">>
    \o Slice(js, change.rhsspan.start, change.rhsspan.end) \o <<")">>

\* The loop body for JsChange::Assignment: both slices are indexing
\* expressions, which panic where get() would return None.
SpliceAssignment ==
    /\ pc = "splice"
    /\ next <= Len(jschanges)
    /\ jschanges[next].type = "Assignment"
    /\ LET change == jschanges[next]
           start == change.entirespan.start
       IN IF \/ ~SliceOk(js, offset, start)
             \/ ~SliceOk(js, change.rhsspan.start, change.rhsspan.end)
          THEN /\ pc' = "done"
               /\ result' = "panic"
               /\ UNCHANGED <<next, offset, buffer>>
          ELSE /\ buffer' = buffer \o Slice(js, offset, start) \o AssignmentText(change)
               /\ offset' = CursorAfter(change)
               /\ next' = next + 1
               /\ UNCHANGED <<pc, result>>
    /\ UNCHANGED <<js, program, config, emitted, jschanges, sourcemap, output>>

SourceTagText(start) ==
    S_scramtag \o to_string(start) \o S_space \o cfg_sourcetag \o <<"*", "/">>

\* The loop body for JsChange::SourceTag.
SpliceSourceTag ==
    /\ pc = "splice"
    /\ next <= Len(jschanges)
    /\ jschanges[next].type = "SourceTag"
    /\ LET start == jschanges[next].tagstart
       IN IF ~SliceOk(js, offset, start)
          THEN /\ pc' = "done"
               /\ result' = "Oob"
               /\ UNCHANGED <<next, offset, buffer>>
          ELSE /\ buffer' = buffer \o Slice(js, offset, start) \o SourceTagText(start)
               /\ offset' = CursorAfter(jschanges[next])
               /\ next' = next + 1
               /\ UNCHANGED <<pc, result>>
    /\ UNCHANGED <<js, program, config, emitted, jschanges, sourcemap, output>>

\* After the loop: the tail of the source, the source-map trailer, Ok.
Finish ==
    /\ pc = "splice"
    /\ next > Len(jschanges)
    /\ pc' = "done"
    /\ IF ~SliceOk(js, offset, Len(js))
       THEN /\ result' = "panic"
            /\ UNCHANGED <<buffer, sourcemap, output>>
       ELSE /\ result' = "Ok"
            /\ buffer' = buffer \o Slice(js, offset, Len(js))
            /\ sourcemap' =
                 IF config.do_sourcemaps
                 THEN sourcemap \o <<"]", ",", "\"">> \o cfg_sourcetag
                      \o <<"\"", ")", ";", "\n">> \o buffer'
                 ELSE sourcemap
            /\ output' = IF config.do_sourcemaps THEN sourcemap' ELSE buffer'
    /\ UNCHANGED <<js, program, config, emitted, jschanges, next, offset>>

Next ==
    \/ VisitProgram
    \/ SpliceGenericChange
    \/ SpliceAssignment
    \/ SpliceSourceTag
    \/ Finish

Spec == Init /\ [][Next]_vars


(***************************************************************************)
(* Vocabulary of the properties                                            *)
(***************************************************************************)
S_rewritten == <<"\"", "/", "x", "/", "h", "t", "t", "p", "s", "%", "3", "A", "%", "2", "F", "%", "2", "F", "h", "%", "2", "F", "a", ".", "j", "s", "\"">>
S_windowfoo == <<"w", "i", "n", "d", "o", "w", ".", "f", "o", "o">>
S_thisx == <<"t", "h", "i", "s", ".", "x">>
S_typeofwindow == <<"t", "y", "p", "e", "o", "f", " ", "w", "i", "n", "d", "o", "w">>
S_exportconst == <<"e", "x", "p", "o", "r", "t", " ", "c", "o", "n", "s", "t", " ", "x", "=", "w", "i", "n", "d", "o", "w">>

Range(s) == {s[i] : i \in 1..Len(s)}

\* Every node of a located tree.
RECURSIVE Nodes(_)
Nodes(it) == {it} \cup UNION {Nodes(it.kids[i]) : i \in 1..Len(it.kids)}

IsInfix(a, b) == \E i \in 0..(Len(b) - Len(a)) : SubSeq(b, i + 1, i + Len(a)) = a

\* The primary offset of change c lies inside span.
StartsIn(c, span) == span.start <= PrimaryOffset(c) /\ PrimaryOffset(c) < span.end

FlagsOff ==
    /\ ~config.strict_rewrites
    /\ ~config.scramitize
    /\ ~config.do_sourcemaps
    /\ ~config.capture_errors

Visited == pc # "visit"
Returned == pc = "done" /\ result = "Ok"

(***************************************************************************)
(* C1  Preservation off-site                                               *)
(***************************************************************************)
\* Byte p of js lies in the span of a GenericChange or in the entirespan of
\* an Assignment of the frozen edit set.
Covered(p) ==
    \E c \in Range(jschanges) :
        \/ c.type = "GenericChange" /\ c.span.start <= p /\ p < c.span.end
        \/ c.type = "Assignment" /\ c.entirespan.start <= p /\ p < c.entirespan.end

\* The bytes of js[a..b] that no edit covers, in source order.
RECURSIVE KeptBytes(_, _)
KeptBytes(a, b) ==
    IF a >= b THEN <<>>
    ELSE (IF Covered(a) THEN <<>> ELSE <<js[a + 1]>>) \o KeptBytes(a + 1, b)

\* The text an edit puts into the output.
Replacement(c) ==
    CASE c.type = "GenericChange" -> c.text
      [] c.type = "Assignment" -> AssignmentText(c)
      [] c.type = "SourceTag" -> SourceTagText(c.tagstart)

\* The uncovered bytes from `from` on, each once and in order, with the text
\* of edit i, i+1, ... put in at the edit's primary offset.
RECURSIVE Interleaved(_, _)
Interleaved(i, from) ==
    IF i > Len(jschanges) THEN KeptBytes(from, Len(js))
    ELSE KeptBytes(from, PrimaryOffset(jschanges[i]))
         \o Replacement(jschanges[i])
         \o Interleaved(i + 1, PrimaryOffset(jschanges[i]))

\* C1: when rewrite returns Ok, every input byte outside the span of every
\* GenericChange and the entirespan of every Assignment of the edit set is in
\* the output buffer exactly once, verbatim and in source order, between the
\* texts the edits insert; a SourceTag consumes no input byte.
C1_PreservationOffSite == Returned => buffer = Interleaved(1, 0)

\* C1 witness: a successful splice over a SourceTag, an Assignment and a
\* GenericChange that replaces a non-empty span.
C1_Witness ==
    /\ Returned
    /\ \E c \in Range(jschanges) : c.type = "SourceTag"
    /\ \E c \in Range(jschanges) : c.type = "Assignment"
    /\ \E c \in Range(jschanges) : c.type = "GenericChange" /\ c.span.end > c.span.start
    /\ \E p \in 0..(Len(js) - 1) : ~Covered(p)

(***************************************************************************)
(* C2  Parse stability                                                     *)
(***************************************************************************)
\* Opening minus closing parentheses among the first k bytes of s.
ParenDepth(s, k) ==
    Cardinality({i \in 1..k : s[i] = "("}) - Cardinality({i \in 1..k : s[i] = ")"})

\* Every parenthesis of s has its partner: a necessary condition for s to
\* parse, the model's programs holding no parenthesis in a string or comment.
Balanced(s) ==
    /\ \A k \in 0..Len(s) : ParenDepth(s, k) >= 0
    /\ ParenDepth(s, Len(s)) = 0

\* C2: when rewrite returns Ok the rewritten code is parseable: in particular
\* its parentheses are balanced, every inserted opening parenthesis having
\* one matching inserted closing parenthesis.
C2_ParseStability == Returned => Balanced(buffer)

(***************************************************************************)
(* C3  Direct eval                                                         *)
(***************************************************************************)
IsEvalOpen(c) ==
    c.type = "GenericChange" /\ c.text = S_evalopen \o cfg_rewritefn \o <<"(">>

\* C3: for every direct eval call the visitor reaches, the opening edit and
\* the closing edit it emits are both in the frozen edit set, and the opening
\* edit replaces exactly the bytes `eval(`, so that the call reads
\* eval(REWRITEFN(<arguments>)) in the output.
C3_DirectEval ==
    Visited =>
        \A i \in 1..Len(emitted) :
            IsEvalOpen(emitted[i]) =>
                /\ emitted[i] \in Range(jschanges)
                /\ emitted[i + 1] \in Range(jschanges)
                /\ SubSeq(js, emitted[i].span.start + 1, emitted[i].span.end) = S_evalopen

(***************************************************************************)
(* C4  The object of a static member access                                *)
(***************************************************************************)
\* A static member expression whose object is a bare identifier or `this` and
\* whose property is not in UNSAFE_GLOBALS.
SafeAccess(n) ==
    /\ n.kind = "StaticMemberExpression"
    /\ n.kids[1].kind \in {"Identifier", "ThisExpression"}
    /\ n.kids[2].name \notin UNSAFE_GLOBALS

\* The program is the one expression statement e.
IsStatement(e) ==
    /\ Len(program.kids) = 1
    /\ program.kids[1].kind = "ExpressionStatement"
    /\ program.kids[1].kids[1] = e

\* The shim call that wraps an object: WRAPTHISFN(this) or WRAPFN(name).
ShimCall(object) ==
    IF object.kind = "ThisExpression"
    THEN cfg_wrapthisfn \o <<"(">> \o S_this \o <<")">>
    ELSE cfg_wrapfn \o <<"(">> \o object.name \o <<")">>

\* The nodes that are the callee of a `new`, or the object chain below it.
RECURSIVE CalleeChain(_)
CalleeChain(it) ==
    {it} \cup (IF it.kind \in {"StaticMemberExpression", "ComputedMemberExpression"}
               THEN CalleeChain(it.kids[1]) ELSE {})
NewCallees ==
    UNION {CalleeChain(n.kids[1]) : n \in {m \in Nodes(program) : m.kind = "NewExpression"}}

\* C4 as stated: with all flags off, the statement `o.p`, for o an unsafe
\* identifier or `this` and p not in UNSAFE_GLOBALS, is returned as
\* `(SHIM(o)).p`: window.foo as (WRAPFN(window)).foo, this.x as
\* (WRAPTHISFN(this)).x.
C4_ObjectWrapped ==
    (Returned /\ FlagsOff) =>
        \A n \in Nodes(program) :
            (/\ SafeAccess(n)
             /\ IsStatement(n)
             /\ n.kids[1].kind = "Identifier" => n.kids[1].name \in UNSAFE_GLOBALS)
            => output = <<"(">> \o ShimCall(n.kids[1]) \o <<")", ".">> \o n.kids[2].name

\* C4 as amended: with all flags off, a static member expression whose object
\* is a bare identifier or `this` and whose property is neither in
\* UNSAFE_GLOBALS nor postMessage gets no edit, unless it is the callee of a
\* `new`: no edit starts inside it, its text is in the output unchanged, and
\* the statements window.foo and this.x are returned as they are.
C4_SafeAccessUntouched ==
    (Visited /\ FlagsOff) =>
        \A n \in Nodes(program) :
            (SafeAccess(n) /\ n.kids[2].name # S_postMessage /\ n \notin NewCallees)
            => /\ \A c \in Range(emitted) : ~StartsIn(c, n.span)
               /\ Returned => IsInfix(Slice(js, n.span.start, n.span.end), output)
               /\ (Returned /\ IsStatement(n)) => output = js

\* C4 witness: window.foo and this.x have been rewritten with all flags off.
C4_Witness ==
    /\ Returned /\ FlagsOff
    /\ js \in {S_windowfoo, S_thisx}
    /\ output = js

(***************************************************************************)
(* C5  No-op on inert input                                                *)
(***************************************************************************)
\* A node of one of the listed constructs: a reference to an identifier named
\* in UNSAFE_GLOBALS (which includes the callee of eval( and the target of an
\* assignment to location), `this`, `debugger`, an import declaration or
\* expression, import.meta, a .postMessage property.
Sensitive(n) ==
    \/ n.kind \in {"Identifier", "AssignmentTargetIdentifier"} /\ n.name \in UNSAFE_GLOBALS
    \/ n.kind \in {"ThisExpression", "DebuggerStatement", "ImportDeclaration",
                   "ImportExpression"}
    \/ n.kind = "MetaProperty" /\ n.name = S_import
    \/ n.kind = "StaticMemberExpression" /\ n.kids[2].name = S_postMessage

\* An export declaration that carries a source specifier.
ExportWithSource(n) ==
    \/ n.kind = "ExportAllDeclaration"
    \/ n.kind = "ExportNamedDeclaration" /\ n.flag

Inert == \A n \in Nodes(program) : ~Sensitive(n)

\* C5 as stated: with scramitize, do_sourcemaps and capture_errors off, a program holding none
\* of the listed constructs gets an empty edit set and is returned byte for
\* byte, export declarations with a source specifier included.
C5_NoOpOnInert ==
    (Inert /\ ~config.scramitize /\ ~config.do_sourcemaps /\ ~config.capture_errors) =>
        /\ Visited => jschanges = <<>>
        /\ pc = "done" => (result = "Ok" /\ output = js)

\* C5 as amended: the same, for programs that hold no export declaration
\* with a source specifier either.
C5_NoOpOnInertWithoutExportSource ==
    (/\ Inert
     /\ \A n \in Nodes(program) : ~ExportWithSource(n)
     /\ ~config.scramitize
     /\ ~config.do_sourcemaps
     /\ ~config.capture_errors) =>
        /\ Visited => jschanges = <<>>
        /\ pc = "done" => (result = "Ok" /\ output = js)

\* C5 witness: an inert program with a call or a member access inside a
\* function or an export declaration has been returned unchanged.
C5_Witness ==
    /\ Inert /\ ~config.scramitize /\ ~config.do_sourcemaps /\ ~config.capture_errors
    /\ \A n \in Nodes(program) : ~ExportWithSource(n)
    /\ \E n \in Nodes(program) : n.kind \in {"CallExpression", "StaticMemberExpression"}
    /\ \E n \in Nodes(program) : n.kind \in {"ExportNamedDeclaration", "FunctionBody"}
    /\ pc = "done" /\ result = "Ok" /\ output = js

(***************************************************************************)
(* C6  typeof guard                                                        *)
(***************************************************************************)
IsTypeof(n) == n.kind = "UnaryExpression" /\ n.name = S_typeof

\* C6: no edit starts inside the operand of a typeof, whatever the flags, and
\* the text of the typeof expression is in the output unchanged; the operand
\* of another unary operator is visited: in the statement !X, X an unsafe
\* identifier or `this`, the operand is replaced by its shim call.
C6_TypeofGuard ==
    Visited =>
        \A n \in Nodes(program) :
            /\ IsTypeof(n) =>
                  /\ \A c \in Range(emitted) : ~StartsIn(c, n.kids[1].span)
                  /\ Returned => IsInfix(Slice(js, n.span.start, n.span.end), buffer)
            /\ (/\ n.kind = "UnaryExpression"
                /\ n.name = S_not
                /\ IsStatement(n)
                /\ \/ n.kids[1].kind = "ThisExpression"
                   \/ n.kids[1].kind = "Identifier" /\ n.kids[1].name \in UNSAFE_GLOBALS)
               => GenericChange(n.kids[1].span, ShimCall(n.kids[1])) \in Range(jschanges)

\* C6 witness: typeof window has been rewritten under strict_rewrites and
\* come out unchanged.
C6_Witness ==
    /\ Returned /\ config.strict_rewrites
    /\ js = S_typeofwindow
    /\ buffer = js

(***************************************************************************)
(* C7  Source-map entry offsets                                            *)
(***************************************************************************)
\* C7: with do_sourcemaps on, the element the splice loop appends to the
\* source-map array for a GenericChange is ["<escaped slice>",S,E], with S the
\* length of the output buffer just before the change's text is appended and
\* E = S + len(text).
C7_SourcemapOutputOffsets ==
    [][(/\ pc = "splice"
        /\ config.do_sourcemaps
        /\ next <= Len(jschanges)
        /\ jschanges[next].type = "GenericChange"
        /\ next' = next + 1)
       => LET change == jschanges[next] IN
          sourcemap' = sourcemap
                       \o SourcemapEntry(Slice(js, change.span.start, change.span.end),
                                         Len(buffer') - Len(change.text),
                                         Len(buffer'))]_vars

(***************************************************************************)
(* C8  An out-of-bounds splice is reported as an error value               *)
(***************************************************************************)
\* The splice loop stopped at edit `next` and the slice js[offset..start] it
\* had to copy before that edit does not exist.
StoppedOnBadSlice ==
    /\ pc = "done"
    /\ next <= Len(jschanges)
    /\ ~SliceOk(js, offset, PrimaryOffset(jschanges[next]))

\* C8: whatever the variant of the edit, when the slice to copy before it
\* does not exist rewrite returns RewriterError::Oob; it does not panic.
C8_OobIsAnErrorValue == StoppedOnBadSlice => result = "Oob"

(***************************************************************************)
(* C9  No edit is lost to equal-offset collapse                            *)
(***************************************************************************)
\* C9: every edit the visitor hands to the edit set is in the frozen edit set
\* the splice loop iterates: no edit is dropped because an earlier edit has
\* the same primary offset.
C9_NoEditLost == Visited => \A i \in 1..Len(emitted) : emitted[i] \in Range(jschanges)

(***************************************************************************)
(* C10  Export declarations are not descended into                         *)
(***************************************************************************)
IsExport(n) == n.kind \in {"ExportAllDeclaration", "ExportNamedDeclaration"}

\* C10: the only edit that starts inside an export declaration is the
\* replacement of its source specifier by the rewritten URL literal; a
\* declaration without a source gets no edit and its text, unsafe references
\* included, is in the output unchanged.  An import declaration gets the
\* replacement of its source specifier as well.
C10_ExportNotDescended ==
    Visited =>
        \A n \in Nodes(program) :
            /\ IsExport(n) =>
                  /\ \A c \in Range(emitted) :
                        StartsIn(c, n.span) =>
                            /\ ExportWithSource(n)
                            /\ c = GenericChange(n.kids[Len(n.kids)].span, S_rewritten)
                  /\ (Returned /\ ~ExportWithSource(n))
                        => IsInfix(Slice(js, n.span.start, n.span.end), buffer)
            /\ n.kind = "ImportDeclaration" =>
                  \A c \in Range(emitted) :
                      StartsIn(c, n.span)
                          <=> c = GenericChange(n.kids[Len(n.kids)].span, S_rewritten)

\* C10 witness: export const x=window has been rewritten and come out
\* unchanged.
C10_Witness ==
    /\ Returned
    /\ js = S_exportconst
    /\ buffer = js
=============================================================================
